---------------------------- MODULE Spec2Model ----------------------------
(***************************************************************************)
(* Funny JSON Explorer (fje.py, revision 1, and fje_v2.py, revision 2).    *)
(*                                                                         *)
(* A decoded JSON value is turned into a Container/Leaf tree by            *)
(* JSONBuilder.build and printed by Container.display / Leaf.display with  *)
(* a TreeStyle or a RectangleStyle.                                        *)
(*                                                                         *)
(* Decoded JSON values are records tagged with their Python type:          *)
(*   [type |-> "dict", items |-> << <<key, value>>, ... >>]  (key order)   *)
(*   [type |-> "list", elems |-> << value, ... >>]                         *)
(*   [type |-> "int", n |-> 1]   [type |-> "str", s |-> "x"]               *)
(*   [type |-> "NoneType"]                                                 *)
(*                                                                         *)
(* An output line is the record of the pieces its f-string concatenates:   *)
(*   prefix, glyph : sequences of characters                               *)
(*   icon, name, value, tail : strings ("" where the f-string has none)    *)
(* Names and values are atoms: no key or string of the model holds a line  *)
(* break.  The box-drawing characters of the source are written with the   *)
(* ASCII stand-ins BoxV, BoxH, BoxVR, BoxUR and BoxDR.                     *)
(***************************************************************************)
EXTENDS Integers, Sequences, FiniteSets, TLC

VARIABLES rev, args, icon_families, selected_icon_family, pc, data, root,
          stdout, err, exitcode, trace, first, last, renders, intervened

vars == <<rev, args, icon_families, selected_icon_family, pc, data, root,
          stdout, err, exitcode, trace, first, last, renders, intervened>>

-----------------------------------------------------------------------------
(* Bounds of the model.                                                    *)

\* A JSON document of the model has at most MaxNodes values (containers
\* and scalars together).
MaxNodes == 4

\* The render harness displays one tree at most MaxRenders times.
MaxRenders == 3

-----------------------------------------------------------------------------
(* Characters and Python values.                                           *)

BoxV == "|"     \* U+2502, light vertical
BoxH == "-"     \* U+2500, light horizontal
BoxVR == "+"    \* U+251C, light vertical and right
BoxUR == "L"    \* U+2514, light up and right
BoxDR == "r"    \* U+250C, light down and right

\* Python's None, in a field that otherwise holds a string.
None == "<None>"

\* The decoded JSON null.
NoneValue == [type |-> "NoneType"]

Keys == {"a", "b"}

\* The scalar values of the model's documents: a number and null.
Scalars == {[type |-> "int", n |-> 1], NoneValue}

RECURSIVE DocsOfSize(_), SeqsOfSize(_)

\* The injective key sequences of length k: a decoded object has each key
\* once, in the order of the document.
KeySeqs(k) == {ks \in [1..k -> Keys] : \A i, j \in 1..k : ks[i] = ks[j] => i = j}

\* The sequences of documents whose sizes add up to n.
SeqsOfSize(n) ==
    IF n = 0 THEN {<<>>}
    ELSE UNION {{<<d>> \o s : d \in DocsOfSize(m), s \in SeqsOfSize(n - m)} : m \in 1..n}

\* The documents of exactly n values.
DocsOfSize(n) ==
    LET kids == SeqsOfSize(n - 1)
        dicts == UNION {{[type |-> "dict",
                          items |-> [i \in 1..Len(vs) |-> <<ks[i], vs[i]>>]]
                           : ks \in KeySeqs(Len(vs))} : vs \in kids}
        lists == {[type |-> "list", elems |-> vs] : vs \in kids}
    IN (IF n = 1 THEN Scalars ELSE {}) \cup dicts \cup lists

Docs == UNION {DocsOfSize(n) : n \in 1..MaxNodes}

RECURSIVE repr(_), join_repr(_, _)

\* ", ".join(repr(e) for e in elems[i:])
join_repr(elems, i) ==
    IF i > Len(elems) THEN ""
    ELSE IF i = Len(elems) THEN repr(elems[i])
    ELSE repr(elems[i]) \o ", " \o join_repr(elems, i + 1)

\* Python's repr of a decoded JSON value.
repr(v) ==
    CASE v.type = "int" -> ToString(v.n)
      [] v.type = "str" -> "'" \o v.s \o "'"
      [] v.type = "NoneType" -> "None"
      [] v.type = "list" -> "[" \o join_repr(v.elems, 1) \o "]"
      [] v.type = "dict" ->
            "{" \o join_repr([i \in 1..Len(v.items) |->
                     [type |-> "item", key |-> v.items[i][1], value |-> v.items[i][2]]], 1)
                \o "}"
      [] v.type = "item" -> "'" \o v.key \o "': " \o repr(v.value)

\* What an f-string's {leaf.value} inserts: format(value, ""), that is str(value).
str(v) == IF v.type = "str" THEN v.s ELSE repr(v)

-----------------------------------------------------------------------------
(* The tree model.                                                         *)

\* Container(name): Component.__init__ and Container.__init__.
Container(name) ==
    [class |-> "Container", name |-> name, children |-> <<>>, level |-> 0, icon |-> None]

\* Leaf(name, value): Component.__init__ and Leaf.__init__.
Leaf(name, value) ==
    [class |-> "Leaf", name |-> name, value |-> value, icon |-> None]

\* The component put in front of the children.
add_front(parent, component) == [parent EXCEPT !.children = <<component>> \o @]

\* Container.add
add(parent, component) == [parent EXCEPT !.children = Append(@, component)]

RECURSIVE build(_), build_items(_, _, _)

\* The loop of JSONBuilder.build over data.items(), from item i on.
build_items(parent, items, i) ==
    IF i > Len(items) THEN parent
    ELSE LET child == build(items[i][2])
             named == [child EXCEPT !.name = items[i][1]]
         IN build_items(add(parent, named), items, i + 1)

\* JSONBuilder.build
build(d) ==
    IF d.type = "dict" THEN build_items(Container("root"), d.items, 1)
    ELSE IF d.type # "NoneType" THEN Leaf("value", d)
    ELSE Leaf("null", NoneValue)

-----------------------------------------------------------------------------
(* The render strategies.  display and render_* return the text they       *)
(* produce (out, a sequence of lines) and the node as the call leaves it   *)
(* (node): display assigns the node's icon attribute.                      *)

Chars(c, n) == [i \in 1..n |-> c]

\* One output line, "\n" included: the pieces of its f-string.
Line(prefix, glyph, icon, name, sep, value, tail) ==
    [prefix |-> prefix, glyph |-> glyph, icon |-> icon, name |-> name,
     sep |-> sep, value |-> value, tail |-> tail]

TreeBar == <<BoxV, " ", " ", " ">>
TreeBlank == <<" ", " ", " ", " ">>
TreeElbow == <<BoxUR, BoxH, BoxH, " ">>
RectBar == <<BoxV, " ", " ">>

TreeContainerGlyph == <<BoxVR, BoxH, " ">>
TreeLeafGlyph == <<BoxUR, BoxH, " ">>
RectContainerGlyph == <<BoxDR, BoxH, " ">>
RectLeafGlyph == <<BoxVR, BoxH, " ">>
RectCloseGlyph == <<BoxUR>> \o Chars(BoxH, 13)
RectHeaderTail == " -----"

\* The elbow for every child.
TreeChildPrefixElbows(prefix, i, n) == prefix \o TreeElbow

\* fje.py, TreeStyle.render_container: the prefix handed to child i of n
\* (i counts from 0, as enumerate does).
TreeChildPrefix1(prefix, i, n) ==
    IF i = n - 1 THEN prefix \o TreeElbow ELSE prefix \o TreeBar

\* The uniform rule: the bar for every child, the last one too.
TreeChildPrefixUniform(prefix, i, n) == prefix \o TreeBar

\* fje_v2.py, TreeStyle.render_container: new_prefix starts as the bar
\* prefix and is reassigned in the iteration of the last child, which is
\* the last iteration.
TreeChildPrefix2(prefix, i, n) ==
    IF i = n - 1 THEN prefix \o TreeBlank ELSE prefix \o TreeBar

\* A bar and one space: a unit of two characters.
RectChildPrefixShort(prefix) == prefix \o <<BoxV, " ">>

\* RectangleStyle.render_container: the prefix handed to every child.
RectChildPrefix(prefix) == prefix \o RectBar

ChildPrefix(r, style, prefix, i, n) ==
    IF style = "rectangle" THEN RectChildPrefix(prefix)
    ELSE IF r = 1 THEN TreeChildPrefix1(prefix, i, n)
    ELSE TreeChildPrefix2(prefix, i, n)

\* TreeStyle.render_leaf
TreeStyle_render_leaf(leaf, icon_family, prefix) ==
    <<Line(prefix, TreeLeafGlyph, icon_family.Leaf, leaf.name, ": ", str(leaf.value), "")>>

\* RectangleStyle.render_leaf
RectangleStyle_render_leaf(leaf, icon_family, prefix) ==
    <<Line(prefix, RectLeafGlyph, icon_family.Leaf, leaf.name, ": ", str(leaf.value), "")>>

\* The first line of TreeStyle.render_container
TreeStyle_header(container, icon_family, prefix) ==
    <<Line(prefix, TreeContainerGlyph, icon_family.Container, container.name, "", "", "")>>

\* The first line of RectangleStyle.render_container
RectangleStyle_header(container, icon_family, prefix) ==
    <<Line(prefix, RectContainerGlyph, icon_family.Container, container.name, "", "",
           RectHeaderTail)>>

\* The last line of RectangleStyle.render_container
RectangleStyle_close(prefix) ==
    <<Line(prefix, RectCloseGlyph, "", "", "", "", "")>>

\* The attribute display assigns before it renders.
SetIcon(node, icon) == [node EXCEPT !.icon = icon]

RECURSIVE display(_, _, _, _, _), render_children(_, _, _, _, _, _)

\* The loop of render_container over the container's children, from the
\* child of index i (from 0) on: the children as their display calls leave
\* them, and the text appended to result.
render_children(r, style, container, icon_family, prefix, i) ==
    LET n == Len(container.children)
    IN IF i >= n THEN [children |-> <<>>, out |-> <<>>]
       ELSE LET c == display(r, container.children[i + 1], style, icon_family,
                             ChildPrefix(r, style, prefix, i, n))
                rest == render_children(r, style, container, icon_family, prefix, i + 1)
            IN [children |-> <<c.node>> \o rest.children, out |-> c.out \o rest.out]

\* TreeStyle.render_container (r = 1: fje.py, r = 2: fje_v2.py)
TreeStyle_render_container(r, container, icon_family, prefix) ==
    LET body == render_children(r, "tree", container, icon_family, prefix, 0)
    IN [node |-> [container EXCEPT !.children = body.children],
        out |-> TreeStyle_header(container, icon_family, prefix) \o body.out]

\* RectangleStyle.render_container
RectangleStyle_render_container(r, container, icon_family, prefix) ==
    LET body == render_children(r, "rectangle", container, icon_family, prefix, 0)
    IN [node |-> [container EXCEPT !.children = body.children],
        out |-> RectangleStyle_header(container, icon_family, prefix)
                    \o body.out \o RectangleStyle_close(prefix)]

\* Container.display
Container_display(r, self, style, icon_family, prefix) ==
    LET me == SetIcon(self, icon_family.Container)
    IN IF style = "tree" THEN TreeStyle_render_container(r, me, icon_family, prefix)
       ELSE RectangleStyle_render_container(r, me, icon_family, prefix)

\* The line is written with the icon the leaf holds from the display call
\* before, where it holds one, and the attribute is assigned afterwards.
Leaf_display_stale(self, style, icon_family, prefix) ==
    LET icons == IF self.icon = None THEN icon_family
                 ELSE [icon_family EXCEPT !.Leaf = self.icon]
    IN [node |-> SetIcon(self, icon_family.Leaf),
        out |-> IF style = "tree" THEN TreeStyle_render_leaf(self, icons, prefix)
                ELSE RectangleStyle_render_leaf(self, icons, prefix)]

\* Leaf.display
Leaf_display(self, style, icon_family, prefix) ==
    LET me == SetIcon(self, icon_family.Leaf)
    IN [node |-> me,
        out |-> IF style = "tree" THEN TreeStyle_render_leaf(me, icon_family, prefix)
                ELSE RectangleStyle_render_leaf(me, icon_family, prefix)]

\* node.display(style, icon_family, prefix): dispatch on the node's class.
display(r, node, style, icon_family, prefix) ==
    IF node.class = "Container" THEN Container_display(r, node, style, icon_family, prefix)
    ELSE Leaf_display(node, style, icon_family, prefix)

-----------------------------------------------------------------------------
(* The command line: module-level code, load_json and main.                *)

Styles == {"tree", "rectangle"}

\* config.icon_families: the glyph pair of each family.
AllFamilies ==
    [basic |-> [Container |-> "(dir)", Leaf |-> "(file)"],
     poker |-> [Container |-> "(diamond)", Leaf |-> "(spade)"]]

\* The configurations the program may be installed with: every family, or
\* one without the family that argparse defaults to.
Registries == {AllFamilies, [poker |-> AllFamilies.poker]}

\* What the file named by --file holds: nothing (no such file), text that
\* is not JSON, or a document.
Files == {[type |-> "missing"], [type |-> "invalid"]} \cup Docs

Unset == [type |-> "unset", class |-> "unset"]
NoIcons == [Container |-> None, Leaf |-> None]
NoRender == [rev |-> 0, style |-> "", family |-> "", out |-> <<>>]

\* print's own line end after the text, which ends in a line end itself.
EmptyLine == Line(<<>>, <<>>, "", "", "", "", "")

\* parser.parse_args(): argparse checks a given --icon_family against
\* choices (the keys of icon_families) and ends the process with status 2;
\* it does not check the default.
parse_args(a, families) ==
    IF a.given /\ a.icon_family \notin DOMAIN families
    THEN [ok |-> FALSE, err |-> "usage: invalid choice", status |-> 2]
    ELSE [ok |-> TRUE, err |-> "none", status |-> 0]

\* selected_icon_family = icon_families[args.icon_family]: fje_v2.py
\* catches the KeyError, prints and calls exit(1); fje.py lets it end the
\* process with a traceback and status 1.
lookup(r, a, families) ==
    IF a.icon_family \in DOMAIN families
    THEN [ok |-> TRUE, value |-> families[a.icon_family], err |-> "none", status |-> 0]
    ELSE [ok |-> FALSE, value |-> NoIcons, status |-> 1,
          err |-> IF r = 2 THEN "Error: Icon family not found in configuration."
                  ELSE "Traceback: KeyError"]

\* The handlers print and fall off the end of the function: the caller
\* gets None.
load_json_noexit(r, f) ==
    IF f.type \in {"missing", "invalid"}
    THEN [ok |-> TRUE, value |-> NoneValue, status |-> 0, err |-> "Error: no exit"]
    ELSE [ok |-> TRUE, value |-> f, status |-> 0, err |-> "none"]

\* load_json(filepath): fje_v2.py catches FileNotFoundError and
\* json.JSONDecodeError, prints and calls exit(1); fje.py lets them end the
\* process with a traceback and status 1.
load_json(r, f) ==
    CASE f.type = "missing" ->
            [ok |-> FALSE, value |-> Unset, status |-> 1,
             err |-> IF r = 2 THEN "Error: File not found."
                     ELSE "Traceback: FileNotFoundError"]
      [] f.type = "invalid" ->
            [ok |-> FALSE, value |-> Unset, status |-> 1,
             err |-> IF r = 2 THEN "Error: File is not a valid JSON."
                     ELSE "Traceback: JSONDecodeError"]
      [] OTHER -> [ok |-> TRUE, value |-> f, status |-> 0, err |-> "none"]

Init ==
    /\ rev \in {1, 2}
    /\ icon_families \in Registries
    /\ args \in {a \in [style : Styles, icon_family : {"basic", "poker", "nosuch"},
                        given : BOOLEAN] : ~a.given => a.icon_family = "basic"}
    /\ selected_icon_family = NoIcons
    /\ pc = "parse_args"
    /\ data = Unset
    /\ root = Unset
    /\ stdout = <<>>
    /\ err = "none"
    /\ exitcode = -1
    /\ trace = <<>>
    /\ first = NoRender
    /\ last = NoRender
    /\ renders = 0
    /\ intervened = FALSE

\* args = parser.parse_args()
ParseArgs ==
    /\ pc = "parse_args"
    /\ LET res == parse_args(args, icon_families)
       IN /\ pc' = IF res.ok THEN "lookup" ELSE "exited"
          /\ err' = IF res.err = "none" THEN err ELSE res.err
          /\ exitcode' = IF res.ok THEN exitcode ELSE res.status
    /\ trace' = Append(trace, "parse_args")
    /\ UNCHANGED <<rev, args, icon_families, selected_icon_family, data, root, stdout,
                   first, last, renders, intervened>>

\* The module-level lookup of the selected icon family.
LookupIcons ==
    /\ pc = "lookup"
    /\ LET res == lookup(rev, args, icon_families)
       IN /\ pc' = IF res.ok THEN "main" ELSE "exited"
          /\ selected_icon_family' = res.value
          /\ err' = IF res.err = "none" THEN err ELSE res.err
          /\ exitcode' = IF res.ok THEN exitcode ELSE res.status
    /\ trace' = Append(trace, "lookup")
    /\ UNCHANGED <<rev, args, icon_families, data, root, stdout, first, last, renders, intervened>>

\* main: data = load_json(args.file)
LoadJson ==
    /\ pc = "main"
    /\ \E f \in Files :
         LET res == load_json(rev, f)
         IN /\ pc' = IF res.ok THEN "show" ELSE "exited"
            /\ data' = res.value
            /\ err' = IF res.err = "none" THEN err ELSE res.err
            /\ exitcode' = IF res.ok THEN exitcode ELSE res.status
    /\ trace' = Append(trace, "load_json")
    /\ UNCHANGED <<rev, args, icon_families, selected_icon_family, root, stdout,
                   first, last, renders, intervened>>

\* FunnyJsonExplorer.show: root = builder.build(data)
Build ==
    /\ pc = "show"
    /\ root' = build(data)
    /\ pc' = "display"
    /\ trace' = Append(trace, "build")
    /\ UNCHANGED <<rev, args, icon_families, selected_icon_family, data, stdout, err,
                   exitcode, first, last, renders, intervened>>

\* FunnyJsonExplorer.show: print(root.display(style, self.icon_family)),
\* and the end of main.
Display ==
    /\ pc = "display"
    /\ LET d == display(rev, root, args.style, selected_icon_family, <<>>)
       IN /\ root' = d.node
          /\ stdout' = d.out \o <<EmptyLine>>
    /\ pc' = "done"
    /\ exitcode' = 0
    /\ trace' = Append(trace, "display")
    /\ UNCHANGED <<rev, args, icon_families, selected_icon_family, data, err,
                   first, last, renders, intervened>>

Next == ParseArgs \/ LookupIcons \/ LoadJson \/ Build \/ Display

Spec == Init /\ [][Next]_vars

-----------------------------------------------------------------------------
(* The render harness: one tree of the builder, displayed again and again. *)
(* first and last hold the first and the latest display call and what they *)
(* returned; intervened tells that a call between the two had another      *)
(* style, revision or icon family than the first.                          *)

RenderInit ==
    /\ rev = 2
    /\ icon_families = AllFamilies
    /\ args = [style |-> "tree", icon_family |-> "basic", given |-> FALSE]
    /\ selected_icon_family = AllFamilies.basic
    /\ pc = "display"
    /\ data \in Docs
    /\ root = build(data)
    /\ stdout = <<>>
    /\ err = "none"
    /\ exitcode = -1
    /\ trace = <<>>
    /\ first = NoRender
    /\ last = NoRender
    /\ renders = 0
    /\ intervened = FALSE

SameCall(c1, c2) ==
    c1.rev = c2.rev /\ c1.style = c2.style /\ c1.family = c2.family

\* root.display(style, icon_families[family]) with a style object of
\* revision r.
Render(r, style, family) ==
    /\ renders < MaxRenders
    /\ LET d == display(r, root, style, icon_families[family], <<>>)
           call == [rev |-> r, style |-> style, family |-> family, out |-> d.out]
       IN /\ root' = d.node
          /\ last' = call
          /\ first' = IF renders = 0 THEN call ELSE first
    /\ intervened' = (intervened \/ (renders >= 2 /\ ~SameCall(last, first)))
    /\ renders' = renders + 1
    /\ UNCHANGED <<rev, args, icon_families, selected_icon_family, pc, data, stdout, err,
                   exitcode, trace>>

\* fje_v2.py alone: any style, any icon family.
RenderNext ==
    \E style \in Styles, family \in DOMAIN AllFamilies : Render(2, style, family)

RenderSpec == RenderInit /\ [][RenderNext]_vars

\* Both revisions side by side, with the icon family of the run.
RevisionNext ==
    \E r \in {1, 2}, style \in Styles : Render(r, style, args.icon_family)

RevisionSpec == RenderInit /\ [][RevisionNext]_vars

-----------------------------------------------------------------------------
(* Reading the output and the document.                                    *)

TreeUnit == 4
RectUnit == 3

Unit(style) == IF style = "tree" THEN TreeUnit ELSE RectUnit

LeafGlyph(style) == IF style = "tree" THEN TreeLeafGlyph ELSE RectLeafGlyph

ContainerGlyph(style) == IF style = "tree" THEN TreeContainerGlyph ELSE RectContainerGlyph

Range(f) == {f[i] : i \in DOMAIN f}

\* The lines render produced: all but print's closing empty line.
RenderLines(out) == SelectSeq(out, LAMBDA l : l # EmptyLine)

\* The lines that head a node's block: a container's header or a leaf.
HeadLines(style, out) ==
    SelectSeq(out, LAMBDA l : l.glyph \in {LeafGlyph(style), ContainerGlyph(style)})

LeafLines(style, out) == SelectSeq(out, LAMBDA l : l.glyph = LeafGlyph(style))

RECURSIVE Concat(_)
Concat(ss) == IF ss = <<>> THEN <<>> ELSE Head(ss) \o Concat(Tail(ss))

RECURSIVE Sum(_)
Sum(ns) == IF ns = <<>> THEN 0 ELSE Head(ns) + Sum(Tail(ns))

RECURSIVE ScalarCount(_)
\* The number of scalar and null values of a document.
ScalarCount(d) ==
    CASE d.type = "dict" -> Sum([i \in 1..Len(d.items) |-> ScalarCount(d.items[i][2])])
      [] d.type = "list" -> Sum([i \in 1..Len(d.elems) |-> ScalarCount(d.elems[i])])
      [] OTHER -> 1

RECURSIVE HasType(_, _)
\* The document holds a value of type t.
HasType(d, t) ==
    \/ d.type = t
    \/ d.type = "dict" /\ \E i \in 1..Len(d.items) : HasType(d.items[i][2], t)
    \/ d.type = "list" /\ \E i \in 1..Len(d.elems) : HasType(d.elems[i], t)

RECURSIVE PreOrder(_)
\* The nodes of a tree, parent first, children in order.
PreOrder(node) ==
    IF node.class = "Container"
    THEN <<node>> \o Concat([i \in 1..Len(node.children) |-> PreOrder(node.children[i])])
    ELSE <<node>>

Max(S) == CHOOSE m \in S : \A x \in S : x <= m

RECURSIVE Height(_)
\* The number of nesting levels below a node.
Height(node) ==
    IF node.class = "Container" /\ node.children # <<>>
    THEN 1 + Max({Height(node.children[i]) : i \in 1..Len(node.children)})
    ELSE 0

RECURSIVE ClearIcons(_)
\* The tree with every icon attribute as the constructors leave it.
ClearIcons(node) ==
    IF node.class = "Container"
    THEN [node EXCEPT !.icon = None,
                      !.children = [i \in 1..Len(node.children) |->
                                       ClearIcons(node.children[i])]]
    ELSE [node EXCEPT !.icon = None]

Done == pc = "done"

-----------------------------------------------------------------------------
(* Claims about the builder and the leaf lines.                            *)

\* C1: when a run ends, the number of leaf lines printed equals the number
\* of scalar and null values of the document, in either style.
C1_LeafLinesEqualScalars ==
    Done => Len(LeafLines(args.style, stdout)) = ScalarCount(data)

\* C2: build of an array returns a Container with one child per element,
\* in array order, each child's class given by the element's own structure.
C2_ArrayBuildsContainer ==
    (pc \in {"display", "done"} /\ data.type = "list") =>
        /\ root.class = "Container"
        /\ Len(root.children) = Len(data.elems)
        /\ \A i \in 1..Len(data.elems) :
              root.children[i].class =
                  IF data.elems[i].type \in {"dict", "list"} THEN "Container" ELSE "Leaf"

\* C4: a null is printed as a leaf line with no value text: the top-level
\* null as the single line named "null", and every nested null likewise.
C4_NullHasNoValueText ==
    Done =>
        LET heads == HeadLines(args.style, stdout)
            nodes == PreOrder(root)
        IN /\ data = NoneValue =>
                /\ Len(RenderLines(stdout)) = 1
                /\ heads[1].name = "null"
                /\ heads[1].value = ""
           /\ \A k \in 1..Len(nodes) :
                (nodes[k].class = "Leaf" /\ nodes[k].value = NoneValue) =>
                    heads[k].value = ""

-----------------------------------------------------------------------------
(* Claims about the prefixes.                                              *)

Size(node) == Len(PreOrder(node))

RECURSIVE TreeRule(_, _, _)
\* In the tree-style text out, where line k heads the block of node: the
\* last child's block is headed by a line of the node's prefix and four
\* spaces, every other child's by the node's prefix, a bar and three
\* spaces, and so on below each child.
TreeRule(node, out, k) ==
    node.class = "Container" =>
        LET n == Len(node.children)
            at(i) == k + 1 + Sum([j \in 1..(i - 1) |-> Size(node.children[j])])
        IN \A i \in 1..n :
              /\ out[at(i)].prefix =
                    IF i = n THEN out[k].prefix \o <<" ", " ", " ", " ">>
                    ELSE out[k].prefix \o <<BoxV, " ", " ", " ">>
              /\ TreeRule(node.children[i], out, at(i))

\* C3: in the tree style of fje_v2.py every container's last child is
\* rendered with the container's prefix and four spaces and every other
\* child with the container's prefix, a bar and three spaces, at every
\* depth; a container without children prints its header line alone.
C3_TreeChildPrefixes ==
    (Done /\ rev = 2 /\ args.style = "tree") =>
        LET out == RenderLines(stdout)
        IN /\ Len(out) = Size(root)
           /\ out[1].prefix = <<>>
           /\ TreeRule(root, out, 1)

\* A run of fje_v2.py in tree style on a container of two children, the
\* first a container with a child of its own.
C3_Witness ==
    /\ Done /\ rev = 2 /\ args.style = "tree"
    /\ root.class = "Container"
    /\ Len(root.children) = 2
    /\ root.children[1].class = "Container"
    /\ Len(root.children[1].children) = 1

RECURSIVE Depths(_, _, _)
\* The nesting depth of the node of each line of a tree's text: a
\* container's header, its children's blocks and, in the rectangle style,
\* the line that closes its box.
Depths(node, d, style) ==
    IF node.class = "Container"
    THEN <<d>> \o Concat([i \in 1..Len(node.children) |->
                            Depths(node.children[i], d + 1, style)])
              \o (IF style = "rectangle" THEN <<d>> ELSE <<>>)
    ELSE <<d>>

\* C5: in both styles every line of a node at depth d, the closing line of
\* a box included, has a prefix of d units: 4 characters a unit in the tree
\* style, 3 in the rectangle style.
C5_PrefixLengthIsDepth ==
    Done =>
        LET out == RenderLines(stdout)
            ds == Depths(root, 0, args.style)
        IN /\ Len(out) = Len(ds)
           /\ \A k \in 1..Len(out) : Len(out[k].prefix) = Unit(args.style) * ds[k]

\* A run in rectangle style on a document nested two levels deep.
C5_Witness == Done /\ args.style = "rectangle" /\ Height(root) >= 2

-----------------------------------------------------------------------------
(* Claims about the order of the output.                                   *)

\* The name build gives the top-level value.
TopName(d) ==
    IF d.type = "dict" THEN "root" ELSE IF d.type = "NoneType" THEN "null" ELSE "value"

RECURSIVE DocOrder(_, _, _, _)
\* The document read depth first, an object's keys in their order: the
\* name and depth of every value that build makes a node of, and an entry
\* without a name where the rectangle style closes an object's box.
DocOrder(d, name, depth, style) ==
    IF d.type = "dict"
    THEN <<[name |-> name, depth |-> depth]>>
            \o Concat([i \in 1..Len(d.items) |->
                         DocOrder(d.items[i][2], d.items[i][1], depth + 1, style)])
            \o (IF style = "rectangle" THEN <<[name |-> "", depth |-> depth]>> ELSE <<>>)
    ELSE <<[name |-> name, depth |-> depth]>>

\* C6: the output is the depth-first pre-order of the document: each
\* container's header, then the whole block of each child in key order,
\* sibling blocks neither sorted nor interleaved.
C6_PreOrderKeyOrder ==
    Done =>
        LET out == RenderLines(stdout)
        IN [k \in 1..Len(out) |->
                [name |-> out[k].name,
                 depth |-> Len(out[k].prefix) \div Unit(args.style)]]
           = DocOrder(data, TopName(data), 0, args.style)

\* A run on an object of two keys, the first with an object of its own
\* keys, so that a sibling's line follows a nested block.
C6_Witness ==
    /\ Done
    /\ data.type = "dict"
    /\ Len(data.items) = 2
    /\ data.items[1][2].type = "dict"
    /\ Len(data.items[1][2].items) >= 1
    /\ data.items[1][1] = "b"

-----------------------------------------------------------------------------
(* Claims about the command line.                                          *)

CoreCalled == {"build", "display"} \cap Range(trace) # {}

\* C7: an unknown icon family, a missing file and a file that is not JSON
\* are each reported and end the process with a status other than zero;
\* build and display are never called in such a run, and the icon family
\* is checked before the file is opened.
C7_FailuresStopBeforeCore ==
    /\ err # "none" => (pc = "exited" /\ exitcode > 0 /\ ~CoreCalled)
    /\ args.icon_family \notin DOMAIN icon_families =>
          /\ "load_json" \notin Range(trace)
          /\ pc \notin {"parse_args", "lookup"} => err # "none"
    /\ ("load_json" \in Range(trace) /\ data \notin Docs) => err # "none"
    /\ CoreCalled => (err = "none" /\ data \in Docs)
    /\ exitcode = 0 => err = "none"

\* A run of fje_v2.py that ended in load_json.
C7_Witness ==
    pc = "exited" /\ rev = 2 /\ "load_json" \in Range(trace) /\ exitcode = 1

\* C8: a display call leaves every attribute of every node, and the icon
\* pair, as they were.
C8_RenderReadOnly ==
    [][pc = "display" =>
          (root' = root /\ selected_icon_family' = selected_icon_family)]_vars

-----------------------------------------------------------------------------
(* Claims about repeated rendering and about the two revisions.            *)

\* C9: displaying a tree again with the style and icon family of its first
\* display returns the same text, whatever was displayed in between, and
\* every display returns a text.
C9_RenderIdempotent ==
    /\ (renders >= 2 /\ SameCall(first, last)) => last.out = first.out
    /\ renders >= 1 => Len(last.out) >= Size(root)

\* A third display with the arguments of the first, after a display with
\* another style or icon family, of a tree that has a leaf below the root.
C9_Witness ==
    renders = 3 /\ SameCall(first, last) /\ intervened /\ Height(root) >= 1

\* Segment j of a tree-style prefix.
Segment(prefix, j) == SubSeq(prefix, TreeUnit * (j - 1) + 1, TreeUnit * j)

\* A line without its prefix.
Body(l) == [l EXCEPT !.prefix = <<>>]

\* What C10 states of out1, the text of fje.py, and out2, that of
\* fje_v2.py, for one tree and one style.
Related(style, out1, out2, tree) ==
    IF style = "rectangle" THEN out1 = out2
    ELSE /\ Len(out1) = Len(out2)
         /\ \A k \in 1..Len(out1) :
               /\ Body(out1[k]) = Body(out2[k])
               /\ Len(out1[k].prefix) = Len(out2[k].prefix)
               /\ \A j \in 1..(Len(out1[k].prefix) \div TreeUnit) :
                     \/ /\ Segment(out1[k].prefix, j) = Segment(out2[k].prefix, j)
                        /\ Segment(out2[k].prefix, j) # <<" ", " ", " ", " ">>
                     \/ /\ Segment(out1[k].prefix, j) = <<BoxUR, BoxH, BoxH, " ">>
                        /\ Segment(out2[k].prefix, j) = <<" ", " ", " ", " ">>
         /\ (out1 = out2) <=> (Height(tree) = 0)

\* C10: for one input the two revisions print the same text in rectangle
\* style; in tree style the same lines with prefixes of equal length that
\* differ only where a last child contributes its segment, so that the
\* texts are equal exactly when no container has a child.
C10_RevisionsRelated ==
    (renders >= 2 /\ first.style = last.style /\ first.rev # last.rev) =>
        IF first.rev = 1 THEN Related(first.style, first.out, last.out, root)
        ELSE Related(first.style, last.out, first.out, root)

\* The tree style of fje.py, then that of fje_v2.py, on a tree nested two
\* levels deep.
C10_Witness ==
    /\ renders >= 2 /\ first.rev = 1 /\ last.rev = 2
    /\ first.style = "tree" /\ last.style = "tree"
    /\ Height(root) >= 2

=============================================================================
